---- MODULE Spec2Model ----
(***************************************************************************)
(* The token-gated websocket relay of gabriel-server, in its two variants: *)
(*   "simple" : src/client_comm.py, one counter per client, a result       *)
(*              queue and a producer task per client;                      *)
(*   "filter" : src/src/gabriel_server/websocket_server.py, one counter    *)
(*              per (client, filter), one server-wide _producer.           *)
(* A behaviour runs one of the two servers (variant is chosen in Init).    *)
(* Both run on one asyncio event loop: an action is the code a coroutine   *)
(* executes between two suspension points.  websocket.send is taken at     *)
(* the point of the call: it writes when the connection is open and        *)
(* raises ConnectionClosed when it is not.                                 *)
(* The record built at websocket_server.py:53 is read as the two-field     *)
(* record the rest of that file uses (tokens_for_filter, websocket).       *)
(***************************************************************************)
EXTENDS Integers, Sequences, FiniteSets, TLC

\* ------------------------------------------------------------------ bounds
MaxConns == 2       \* connections accepted in one run
MaxFrames == 3      \* frames received in one run, over all connections
MaxResults == 2     \* calls of submit_result in one run (simple variant)
MaxCategoryConns == 1   \* connections accepted in one run with two categories

\* ------------------------------------------------------- program constants
NUM_TOKENS == 2
INPUT_QUEUE_MAXSIZE == 2
num_tokens_per_filter == 2

\* remote addresses (host, port) and the names a frame can carry.  A frame's
\* engine_name / filter_passed is a protobuf string, an address is a tuple:
\* the two sets are disjoint.
Address == {"a1", "a2"}
EngineNames == {"e1"}
FilterNames == {"f1"}
Categories == {"f1", "f2"}

Conn == 1..MaxConns

VARIABLES
    variant,            \* which server class runs
    nconns,             \* connections accepted so far (they are 1..nconns)
    remote_address,     \* websocket.remote_address of each connection
    ws_open,            \* websocket.open of each connection
    sent,               \* messages written to each connection, in order
    nframes,            \* frames received so far (the next frame_id)
    received,           \* frames received on each connection, in order, each with
                        \* whether its name was registered when it came
    handler_pc,         \* handler / _handler of each connection
    consumer_pc,        \* consumer_handler / _consumer of each connection
    handler_exc,        \* exception a handler ended with
    dispatch_outcome,   \* how the latest dispatch step (queue_result, _producer) ended
    accepted,           \* frames of a connection the engine transport took
    submitted,          \* the envelopes the engine transport took, in order
    decrements,         \* decrements of a connection's counters (net of the queue.Full undo)
    refunds,            \* increments of a connection's counters for a result
    \* simple variant
    available_engines,  \* self.available_engines
    clients,            \* self.clients: address -> connection (its client record)
    tokens,             \* client.tokens
    result_queue,       \* client.result_queue
    input_queue,        \* self.input_queue
    producer_pc,        \* producer_handler of each connection
    nresults,           \* calls of submit_result so far (the next result id)
    \* filter variant
    _clients,           \* self._clients: address -> connection (its client record)
    tokens_for_filter,  \* client.tokens_for_filter
    _filters_consumed,  \* self._filters_consumed
    to_engine,          \* the envelope a _consumer awaits _send_to_engine for
    engine,             \* envelopes the engines took and have not answered yet
    _producer_exc       \* exception the _producer ended with ("none": it runs)

shared == <<variant, nconns, remote_address, ws_open, sent, nframes, received, handler_pc,
            consumer_pc, handler_exc, dispatch_outcome, accepted, submitted,
            decrements, refunds>>
simple == <<available_engines, clients, tokens, result_queue, input_queue, producer_pc, nresults>>
filter == <<_clients, tokens_for_filter, _filters_consumed, to_engine, engine,
            _producer_exc>>
vars == <<shared, simple, filter>>

NoEnvelope == [frame_id |-> 0, filter_passed |-> "none", send_succeeded |-> FALSE]
EmptyRegistry == [a \in {} |-> 0]
EmptyLedger == [f \in {} |-> 0]

\* dict[key] = value
Store(dict, key, value) ==
    [k \in DOMAIN dict \cup {key} |-> IF k = key THEN value ELSE dict[k]]

\* a del that leaves the entry where it is
DeleteNothing(dict, key) ==
    dict

\* del dict[key], for a key of dict
Delete(dict, key) ==
    [k \in DOMAIN dict \ {key} |-> dict[k]]

\* a send that puts the message ahead of those already written
SendAhead(c, message) ==
    [sent EXCEPT ![c] = <<message>> \o @]

\* websocket.send on an open connection
Send(c, message) ==
    [sent EXCEPT ![c] = Append(@, message)]

Init ==
    /\ variant \in {"simple", "filter"}
    /\ nconns = 0
    /\ remote_address = [c \in Conn |-> "none"]
    /\ ws_open = [c \in Conn |-> FALSE]
    /\ sent = [c \in Conn |-> <<>>]
    /\ nframes = 0
    /\ received = [c \in Conn |-> <<>>]
    /\ handler_pc = [c \in Conn |-> "idle"]
    /\ consumer_pc = [c \in Conn |-> "idle"]
    /\ handler_exc = [c \in Conn |-> "none"]
    /\ dispatch_outcome = "none"
    /\ accepted = [c \in Conn |-> 0]
    /\ submitted = <<>>
    /\ decrements = [c \in Conn |-> 0]
    /\ refunds = [c \in Conn |-> 0]
    /\ available_engines = {}
    /\ clients = EmptyRegistry
    /\ tokens = [c \in Conn |-> 0]
    /\ result_queue = [c \in Conn |-> <<>>]
    /\ input_queue = <<>>
    /\ producer_pc = [c \in Conn |-> "idle"]
    /\ nresults = 0
    /\ _clients = EmptyRegistry
    /\ tokens_for_filter = [c \in Conn |-> EmptyLedger]
    /\ _filters_consumed = {}
    /\ to_engine = [c \in Conn |-> NoEnvelope]
    /\ engine = {}
    /\ _producer_exc = "none"

\* A new connection's (host, port) is that of no connection still open.
FreeAddress(a) ==
    \A c \in 1..nconns : ws_open[c] => remote_address[c] # a

\* The peer closes the connection, or the network fails.
ConnectionClosed(c) ==
    /\ c \in 1..nconns
    /\ ws_open[c]
    /\ ws_open' = [ws_open EXCEPT ![c] = FALSE]
    /\ UNCHANGED <<variant, submitted, nconns, remote_address, sent, nframes, received, handler_pc,
                   consumer_pc, handler_exc, dispatch_outcome, accepted,
                   decrements, refunds, simple, filter>>

\* ====================================================== simple variant
\* src/client_comm.py

\* _send_error(websocket, raw_input, tokens, status)
ErrorMessage(frame_id, tokens_, status) ==
    [type |-> "error", frame_id |-> frame_id, status |-> status,
     num_tokens |-> tokens_]

\* producer_handler's to_client for a result, with _send's num_tokens
ResultMessage(content, tokens_) ==
    [type |-> "result", content |-> content, num_tokens |-> tokens_]

\* the serialized ToFromEngine put on input_queue
ToFromEngine(c, frame_id, engine_name) ==
    [host_port |-> remote_address[c], frame_id |-> frame_id,
     engine_name |-> engine_name, origin |-> c]

\* line 71: if client.tokens > 0
HasTokens(c) ==
    tokens[c] > 0

\* line 78: if to_from_engine.from_client.engine_name in self.clients
EngineInClients(engine_name) ==
    engine_name \in DOMAIN clients

\* handler, up to its await of asyncio.wait: the client record is created
\* and registered, both tasks are scheduled.
handler(a) ==
    /\ variant = "simple"
    /\ nconns < MaxConns
    /\ FreeAddress(a)
    /\ LET c == nconns + 1 IN
        /\ nconns' = c
        /\ remote_address' = [remote_address EXCEPT ![c] = a]
        /\ ws_open' = [ws_open EXCEPT ![c] = TRUE]
        /\ result_queue' = [result_queue EXCEPT ![c] = <<>>]
        /\ tokens' = [tokens EXCEPT ![c] = NUM_TOKENS]
        /\ clients' = Store(clients, a, c)
        /\ handler_pc' = [handler_pc EXCEPT ![c] = "wait"]
        /\ consumer_pc' = [consumer_pc EXCEPT ![c] = "recv"]
        /\ producer_pc' = [producer_pc EXCEPT ![c] = "get"]
    /\ UNCHANGED <<variant, submitted, sent, nframes, received, handler_exc, dispatch_outcome,
                   accepted, decrements, refunds, available_engines, input_queue,
                   nresults, filter>>

\* consumer_handler: one iteration of "async for raw_input in websocket",
\* for a frame naming engine_name.
consumer_handler(c, engine_name) ==
    /\ variant = "simple"
    /\ consumer_pc[c] = "recv"
    /\ ws_open[c]
    /\ nframes < MaxFrames
    /\ nframes' = nframes + 1
    /\ received' = [received EXCEPT ![c] =
           Append(@, [frame_id |-> nframes + 1, name |-> engine_name,
                      registered |-> engine_name \in available_engines])]
    /\ LET frame_id == nframes + 1 IN
        IF HasTokens(c) THEN
            IF EngineInClients(engine_name) THEN
                IF Len(input_queue) < INPUT_QUEUE_MAXSIZE THEN
                    \* client.tokens -= 1; put_nowait succeeds
                    /\ tokens' = [tokens EXCEPT ![c] = @ - 1]
                    /\ decrements' = [decrements EXCEPT ![c] = @ + 1]
                    /\ accepted' = [accepted EXCEPT ![c] = @ + 1]
                    /\ input_queue' =
                           Append(input_queue, ToFromEngine(c, frame_id, engine_name))
                    /\ submitted' =
                           Append(submitted, ToFromEngine(c, frame_id, engine_name))
                    /\ UNCHANGED sent
                ELSE
                    \* client.tokens -= 1; queue.Full; client.tokens += 1
                    /\ tokens' = [tokens EXCEPT ![c] = (@ - 1) + 1]
                    /\ sent' = Send(c, ErrorMessage(frame_id, (tokens[c] - 1) + 1,
                                                    "QUEUE_FULL"))
                    /\ UNCHANGED <<decrements, accepted, submitted, input_queue>>
            ELSE
                /\ sent' = Send(c, ErrorMessage(frame_id, tokens[c],
                                                "REQUESTED_ENGINE_NOT_AVAILABLE"))
                /\ UNCHANGED <<tokens, decrements, accepted, submitted, input_queue>>
        ELSE
            /\ sent' = Send(c, ErrorMessage(frame_id, tokens[c], "NO_TOKENS"))
            /\ UNCHANGED <<tokens, decrements, accepted, submitted, input_queue>>
    /\ UNCHANGED <<variant, nconns, remote_address, ws_open, handler_pc,
                   consumer_pc, handler_exc, dispatch_outcome, refunds,
                   available_engines, clients, result_queue, producer_pc,
                   nresults, filter>>

\* consumer_handler: the connection is closed, "async for" ends and the
\* task is done.
consumer_handler_closed(c) ==
    /\ variant = "simple"
    /\ consumer_pc[c] = "recv"
    /\ ~ws_open[c]
    /\ consumer_pc' = [consumer_pc EXCEPT ![c] = "done"]
    /\ UNCHANGED <<variant, submitted, nconns, remote_address, ws_open, sent, nframes, received,
                   handler_pc, handler_exc, dispatch_outcome, accepted,
                   decrements, refunds, simple, filter>>

\* producer_handler: one iteration of its loop, once result_queue.get()
\* returns.  _send raises ConnectionClosed on a closed connection and the
\* task is done.
producer_handler(c) ==
    /\ variant = "simple"
    /\ producer_pc[c] = "get"
    /\ result_queue[c] # <<>>
    /\ LET content == Head(result_queue[c]) IN
        /\ result_queue' = [result_queue EXCEPT ![c] = Tail(@)]
        /\ tokens' = [tokens EXCEPT ![c] = @ + 1]
        /\ refunds' = [refunds EXCEPT ![c] = @ + 1]
        /\ IF ws_open[c]
           THEN /\ sent' = Send(c, ResultMessage(content, tokens[c] + 1))
                /\ UNCHANGED producer_pc
           ELSE /\ producer_pc' = [producer_pc EXCEPT ![c] = "done"]
                /\ UNCHANGED sent
    /\ UNCHANGED <<variant, submitted, nconns, remote_address, ws_open, nframes, received, handler_pc,
                   consumer_pc, handler_exc, dispatch_outcome, accepted,
                   decrements, available_engines, clients, input_queue,
                   nresults, filter>>

\* handler, after asyncio.wait returned: one task is done, the pending one
\* is cancelled, "finally" deletes self.clients[address] (KeyError when the
\* key is gone).  The library closes the connection when the handler ends.
handler_finally(c) ==
    /\ variant = "simple"
    /\ handler_pc[c] = "wait"
    /\ consumer_pc[c] = "done" \/ producer_pc[c] = "done"
    /\ consumer_pc' = [consumer_pc EXCEPT ![c] =
                          IF @ = "done" THEN "done" ELSE "cancelled"]
    /\ producer_pc' = [producer_pc EXCEPT ![c] =
                          IF @ = "done" THEN "done" ELSE "cancelled"]
    /\ IF remote_address[c] \in DOMAIN clients
       THEN /\ clients' = Delete(clients, remote_address[c])
            /\ UNCHANGED handler_exc
       ELSE /\ handler_exc' = [handler_exc EXCEPT ![c] = "KeyError(address)"]
            /\ UNCHANGED clients
    /\ handler_pc' = [handler_pc EXCEPT ![c] = "done"]
    /\ ws_open' = [ws_open EXCEPT ![c] = FALSE]
    /\ UNCHANGED <<variant, submitted, nconns, remote_address, sent, nframes, received,
                   dispatch_outcome, accepted, decrements, refunds,
                   available_engines, tokens, result_queue, input_queue,
                   nresults, filter>>

\* submit_result(result, address): queue_result runs on the event loop.
\* self.clients.get(address) is None for an unknown address, and reading
\* .result_queue of it raises AttributeError.
submit_result(address) ==
    /\ variant = "simple"
    /\ nresults < MaxResults
    /\ nresults' = nresults + 1
    /\ IF address \in DOMAIN clients
       THEN /\ result_queue' = [result_queue EXCEPT ![clients[address]] =
                                    Append(@, [id |-> nresults + 1, address |-> address])]
            /\ dispatch_outcome' = "put"
       ELSE /\ dispatch_outcome' = "AttributeError"
            /\ UNCHANGED result_queue
    /\ UNCHANGED <<variant, submitted, nconns, remote_address, ws_open, sent, nframes, received,
                   handler_pc, consumer_pc, handler_exc, accepted, decrements,
                   refunds, available_engines, clients, tokens, input_queue,
                   producer_pc, filter>>

\* ====================================================== filter variant
\* src/src/gabriel_server/websocket_server.py

\* a welcome message that lists no filter
WelcomeMessageEmpty ==
    [type |-> "welcome", filters_consumed |-> {},
     num_tokens_per_filter |-> num_tokens_per_filter]

\* _handler's to_client.welcome_message
WelcomeMessage ==
    [type |-> "welcome", filters_consumed |-> _filters_consumed,
     num_tokens_per_filter |-> num_tokens_per_filter]

\* _send_error(websocket, from_client, status)
StatusMessage(frame_id, status) ==
    [type |-> "error", frame_id |-> frame_id, status |-> status]

\* _producer's to_client, a copy of the result_wrapper
ResultWrapper(e) ==
    [type |-> "result", frame_id |-> e.frame_id, filter_passed |-> e.filter_passed]

\* a _consumer that submits the first frame of its connection again in
\* place of the frame it has just received
ToEngineFirst(c, frame_id, filter_passed) ==
    [host_port |-> remote_address[c],
     frame_id |-> IF received[c] # <<>> THEN received[c][1].frame_id ELSE frame_id,
     filter_passed |-> filter_passed, origin |-> c]

\* the ToEngine a _consumer builds; the engine's FromEngine carries the same
\* host, port, frame_id and filter_passed.  origin: the connection it came from.
ToEngine(c, frame_id, filter_passed) ==
    [host_port |-> remote_address[c], frame_id |-> frame_id,
     filter_passed |-> filter_passed, origin |-> c]

\* line 94: if filter_passed not in self._filters_consumed
NoEngineForFilter(filter_passed) ==
    filter_passed \notin _filters_consumed

\* the test of line 101 written "< 0"
NoTokensForFilterBelowZero(c, filter_passed) ==
    tokens_for_filter[c][filter_passed] < 0

\* the test of line 101 made on the whole ledger: one empty counter stops
\* every category
NoTokensForAnyFilter(c, filter_passed) ==
    \E g \in DOMAIN tokens_for_filter[c] : tokens_for_filter[c][g] < 1

\* line 101: if client.tokens_for_filter[filter_passed] < 1
NoTokensForFilter(c, filter_passed) ==
    tokens_for_filter[c][filter_passed] < 1

\* the test of line 111 left out: every send counts as a success
SendSucceededAlways(c) ==
    TRUE

\* line 111: if not send_succeeded
SendSucceeded(c) ==
    to_engine[c].send_succeeded

\* the lookup of line 129 answering the client that connected last
ClientForLatest(address) ==
    nconns

\* line 129: client = self._clients.get(address), for a registered address
ClientFor(address) ==
    _clients[address]

\* lines 53-55: the ledger of a new client
NewLedger ==
    [filter_name \in _filters_consumed |-> num_tokens_per_filter]

\* _handler's "finally" (lines 69-71) and the end of the handler, with exc
\* the exception in flight: del self._clients[address] raises KeyError when
\* the key is gone.  The library closes the connection when the handler ends.
HandlerEnds(c, exc) ==
    /\ IF remote_address[c] \in DOMAIN _clients
       THEN /\ _clients' = Delete(_clients, remote_address[c])
            /\ handler_exc' = [handler_exc EXCEPT ![c] = exc]
       ELSE /\ handler_exc' = [handler_exc EXCEPT ![c] = "KeyError(address)"]
            /\ UNCHANGED _clients
    /\ handler_pc' = [handler_pc EXCEPT ![c] = "done"]
    /\ consumer_pc' = [consumer_pc EXCEPT ![c] = "done"]
    /\ ws_open' = [ws_open EXCEPT ![c] = FALSE]

\* _handler, up to the first await of its _consumer: the client record is
\* created and registered, the welcome message is sent.  alive: whether the
\* connection is still open when the handler runs; if it is not, the send
\* raises ConnectionClosed before the "try" is entered.
_handler(a, alive) ==
    /\ variant = "filter"
    /\ nconns < MaxConns
    /\ FreeAddress(a)
    /\ LET c == nconns + 1 IN
        /\ nconns' = c
        /\ remote_address' = [remote_address EXCEPT ![c] = a]
        /\ tokens_for_filter' = [tokens_for_filter EXCEPT ![c] = NewLedger]
        /\ _clients' = Store(_clients, a, c)
        /\ IF alive
           THEN /\ ws_open' = [ws_open EXCEPT ![c] = TRUE]
                /\ sent' = Send(c, WelcomeMessage)
                /\ handler_pc' = [handler_pc EXCEPT ![c] = "consumer"]
                /\ consumer_pc' = [consumer_pc EXCEPT ![c] = "recv"]
                /\ UNCHANGED handler_exc
           ELSE /\ handler_pc' = [handler_pc EXCEPT ![c] = "done"]
                /\ handler_exc' = [handler_exc EXCEPT ![c] = "ConnectionClosed"]
                /\ UNCHANGED <<ws_open, sent, consumer_pc>>
    /\ UNCHANGED <<variant, submitted, nframes, received, dispatch_outcome, accepted, decrements,
                   refunds, simple, _filters_consumed, to_engine, engine,
                   _producer_exc>>

\* _consumer: one iteration of its loop for a frame tagged filter_passed, up
\* to the next await.  send_succeeded: what _send_to_engine will return; the
\* engines have the envelope from the moment the transport took it.
_consumer(c, filter_passed, send_succeeded) ==
    /\ variant = "filter"
    /\ consumer_pc[c] = "recv"
    /\ ws_open[c]
    /\ nframes < MaxFrames
    /\ nframes' = nframes + 1
    /\ received' = [received EXCEPT ![c] =
           Append(@, [frame_id |-> nframes + 1, name |-> filter_passed,
                      registered |-> filter_passed \in _filters_consumed])]
    /\ LET frame_id == nframes + 1 IN
        IF NoEngineForFilter(filter_passed) THEN
            /\ sent' = Send(c, StatusMessage(frame_id, "NO_ENGINE_FOR_FILTER_PASSED"))
            /\ UNCHANGED <<ws_open, handler_pc, consumer_pc, handler_exc, accepted,
                           submitted, _clients, to_engine, engine>>
        ELSE IF filter_passed \notin DOMAIN tokens_for_filter[c] THEN
            \* KeyError at line 101
            /\ HandlerEnds(c, "KeyError(filter_passed)")
            /\ UNCHANGED <<sent, accepted, submitted, to_engine, engine>>
        ELSE IF NoTokensForFilter(c, filter_passed) THEN
            /\ sent' = Send(c, StatusMessage(frame_id, "NO_TOKENS"))
            /\ UNCHANGED <<ws_open, handler_pc, consumer_pc, handler_exc, accepted,
                           submitted, _clients, to_engine, engine>>
        ELSE
            /\ consumer_pc' = [consumer_pc EXCEPT ![c] = "send_to_engine"]
            /\ to_engine' = [to_engine EXCEPT ![c] =
                   [frame_id |-> frame_id, filter_passed |-> filter_passed,
                    send_succeeded |-> send_succeeded]]
            /\ IF send_succeeded
               THEN /\ engine' = engine \cup {ToEngine(c, frame_id, filter_passed)}
                    /\ submitted' =
                           Append(submitted, ToEngine(c, frame_id, filter_passed))
                    /\ accepted' = [accepted EXCEPT ![c] = @ + 1]
               ELSE UNCHANGED <<engine, accepted, submitted>>
            /\ UNCHANGED <<ws_open, sent, handler_pc, handler_exc, _clients>>
    /\ UNCHANGED <<variant, nconns, remote_address, dispatch_outcome, decrements,
                   refunds, simple, tokens_for_filter, _filters_consumed,
                   _producer_exc>>

\* _consumer, resumed after "await self._send_to_engine(to_engine)" (lines
\* 111-118).  A failed send of SERVER_DROPPED_FRAME raises ConnectionClosed,
\* which _consumer catches, and the handler ends.
_consumer_resume(c) ==
    /\ variant = "filter"
    /\ consumer_pc[c] = "send_to_engine"
    /\ LET filter_passed == to_engine[c].filter_passed IN
        IF ~SendSucceeded(c) THEN
            IF ws_open[c]
            THEN /\ sent' = Send(c, StatusMessage(to_engine[c].frame_id,
                                                  "SERVER_DROPPED_FRAME"))
                 /\ consumer_pc' = [consumer_pc EXCEPT ![c] = "recv"]
                 /\ UNCHANGED <<ws_open, handler_pc, handler_exc, _clients,
                                tokens_for_filter, decrements>>
            ELSE /\ HandlerEnds(c, "none")
                 /\ UNCHANGED <<sent, tokens_for_filter, decrements>>
        ELSE IF filter_passed \notin DOMAIN tokens_for_filter[c] THEN
            \* KeyError at line 118
            /\ HandlerEnds(c, "KeyError(filter_passed)")
            /\ UNCHANGED <<sent, tokens_for_filter, decrements>>
        ELSE
            /\ tokens_for_filter' =
                   [tokens_for_filter EXCEPT ![c][filter_passed] = @ - 1]
            /\ decrements' = [decrements EXCEPT ![c] = @ + 1]
            /\ consumer_pc' = [consumer_pc EXCEPT ![c] = "recv"]
            /\ UNCHANGED <<ws_open, sent, handler_pc, handler_exc, _clients>>
    /\ to_engine' = [to_engine EXCEPT ![c] = NoEnvelope]
    /\ UNCHANGED <<variant, submitted, nconns, remote_address, nframes, received, dispatch_outcome,
                   accepted, refunds, simple, _filters_consumed, engine,
                   _producer_exc>>

\* _consumer: the connection is closed, "while websocket.open" ends or recv
\* raises ConnectionClosed; _consumer returns and the handler ends.
_consumer_closed(c) ==
    /\ variant = "filter"
    /\ consumer_pc[c] = "recv"
    /\ ~ws_open[c]
    /\ HandlerEnds(c, "none")
    /\ UNCHANGED <<variant, submitted, nconns, remote_address, sent, nframes, received,
                   dispatch_outcome, accepted, decrements, refunds, simple,
                   tokens_for_filter, _filters_consumed, to_engine, engine,
                   _producer_exc>>

\* _producer: one iteration of its loop for the result of envelope e, which
\* _recv_from_engine returned.
_producer(e) ==
    /\ variant = "filter"
    /\ _producer_exc = "none"
    /\ e \in engine
    /\ engine' = engine \ {e}
    /\ LET address == e.host_port IN
        IF address \notin DOMAIN _clients THEN
            /\ dispatch_outcome' = "warning"
            /\ UNCHANGED <<sent, refunds, tokens_for_filter, _producer_exc>>
        ELSE LET client == ClientFor(address) IN
            IF e.filter_passed \notin DOMAIN tokens_for_filter[client] THEN
                \* KeyError at line 135
                /\ dispatch_outcome' = "KeyError(filter_passed)"
                /\ _producer_exc' = "KeyError(filter_passed)"
                /\ UNCHANGED <<sent, refunds, tokens_for_filter>>
            ELSE
                /\ tokens_for_filter' =
                       [tokens_for_filter EXCEPT ![client][e.filter_passed] = @ + 1]
                /\ refunds' = [refunds EXCEPT ![client] = @ + 1]
                /\ IF ws_open[client]
                   THEN /\ sent' = Send(client, ResultWrapper(e))
                        /\ dispatch_outcome' = "sent"
                        /\ UNCHANGED _producer_exc
                   ELSE /\ dispatch_outcome' = "ConnectionClosed"
                        /\ _producer_exc' = "ConnectionClosed"
                        /\ UNCHANGED sent
    /\ UNCHANGED <<variant, submitted, nconns, remote_address, ws_open, nframes, received, handler_pc,
                   consumer_pc, handler_exc, accepted, decrements, simple,
                   _clients, _filters_consumed, to_engine>>

\* add_filter_consumed(filter_name): the name is added to the set, then
\* "for client in clients" raises NameError (no name clients is bound), so
\* no client record is touched.
add_filter_consumed(filter_name) ==
    /\ variant = "filter"
    /\ IF filter_name \in _filters_consumed
       THEN UNCHANGED _filters_consumed
       ELSE _filters_consumed' = _filters_consumed \cup {filter_name}
    /\ UNCHANGED <<shared, simple, _clients, tokens_for_filter, to_engine,
                   engine, _producer_exc>>

\* remove_filter_consumed(filter_name): the name is removed from the set,
\* then "for client in clients" raises NameError, so no counter is deleted.
remove_filter_consumed(filter_name) ==
    /\ variant = "filter"
    /\ IF filter_name \notin _filters_consumed
       THEN UNCHANGED _filters_consumed
       ELSE _filters_consumed' = _filters_consumed \ {filter_name}
    /\ UNCHANGED <<shared, simple, _clients, tokens_for_filter, to_engine,
                   engine, _producer_exc>>

\* The hosting process registers an engine: it adds the name to the public
\* set self.available_engines (line 61), which no code of client_comm.py
\* fills.
register_engine(engine_name) ==
    /\ variant = "simple"
    /\ available_engines' = available_engines \cup {engine_name}
    /\ UNCHANGED <<shared, clients, tokens, result_queue, input_queue,
                   producer_pc, nresults, filter>>

SimpleNext ==
    \/ \E engine_name \in EngineNames : register_engine(engine_name)
    \/ \E a \in Address : handler(a)
    \/ \E c \in Conn, engine_name \in EngineNames : consumer_handler(c, engine_name)
    \/ \E c \in Conn : consumer_handler_closed(c)
    \/ \E c \in Conn : producer_handler(c)
    \/ \E c \in Conn : handler_finally(c)
    \/ \E address \in Address : submit_result(address)

FilterNext ==
    \/ \E a \in Address, alive \in BOOLEAN : _handler(a, alive)
    \/ \E c \in Conn, filter_passed \in FilterNames, send_succeeded \in BOOLEAN :
           _consumer(c, filter_passed, send_succeeded)
    \/ \E c \in Conn : _consumer_resume(c)
    \/ \E c \in Conn : _consumer_closed(c)
    \/ \E e \in engine : _producer(e)
    \/ \E filter_name \in FilterNames : add_filter_consumed(filter_name)
    \/ \E filter_name \in FilterNames : remove_filter_consumed(filter_name)

Next ==
    \/ SimpleNext
    \/ FilterNext
    \/ \E c \in Conn : ConnectionClosed(c)

Spec == Init /\ [][Next]_vars

\* the filter variant alone: the server of websocket_server.py
NextFilter ==
    \/ FilterNext
    \/ \E c \in Conn : ConnectionClosed(c)

InitFilter ==
    /\ Init
    /\ variant = "filter"

SpecFilter == InitFilter /\ [][NextFilter]_vars

\* the simple variant alone: the server of client_comm.py.  The event loop
\* runs every task that is ready: a consumer_handler whose connection is
\* closed ends, and a handler whose asyncio.wait can return runs on.
NextSimple ==
    \/ SimpleNext
    \/ \E c \in Conn : ConnectionClosed(c)

InitSimple ==
    /\ Init
    /\ variant = "simple"

SpecSimpleFair ==
    /\ InitSimple
    /\ [][NextSimple]_vars
    /\ \A c \in Conn : WF_vars(consumer_handler_closed(c))
    /\ \A c \in Conn : WF_vars(handler_finally(c))

\* the filter variant with two categories, for one connection at a time
NextCategories ==
    \/ \E a \in Address, alive \in BOOLEAN :
           nconns < MaxCategoryConns /\ _handler(a, alive)
    \/ \E c \in Conn, filter_passed \in Categories, send_succeeded \in BOOLEAN :
           _consumer(c, filter_passed, send_succeeded)
    \/ \E c \in Conn : _consumer_resume(c)
    \/ \E c \in Conn : _consumer_closed(c)
    \/ \E e \in engine : _producer(e)
    \/ \E filter_name \in Categories : add_filter_consumed(filter_name)
    \/ \E filter_name \in Categories : remove_filter_consumed(filter_name)
    \/ \E c \in Conn : ConnectionClosed(c)

SpecCategories == InitFilter /\ [][NextCategories]_vars

\* ============================================================ properties

\* C1: in every reachable state every token counter of every client record is
\* >= 0: client.tokens in the simple variant, each entry of
\* client.tokens_for_filter in the filter variant.
C1_TokensNonNegative ==
    \A c \in Conn :
        /\ tokens[c] >= 0
        /\ \A f \in DOMAIN tokens_for_filter[c] : tokens_for_filter[c][f] >= 0

\* A registered client has spent its whole allotment: its counter is 0.
C1_Witness ==
    \E a \in DOMAIN _clients :
        \E f \in DOMAIN tokens_for_filter[_clients[a]] :
            /\ tokens_for_filter[_clients[a]][f] = 0
            /\ decrements[_clients[a]] = num_tokens_per_filter

\* C2: every frame the engine transport accepted has exactly one decrement of
\* its client's counter (once the consumer is past the await of the
\* submission), and a client's counters are never refunded more often than
\* they were decremented.
C2_RefundsWithinDecrements ==
    \A c \in Conn :
        /\ consumer_pc[c] # "send_to_engine" => accepted[c] = decrements[c]
        /\ refunds[c] <= decrements[c]

\* a _consumer whose pending submission the transport refused
FailedAttempt(c) ==
    /\ consumer_pc[c] = "send_to_engine"
    /\ ~to_engine[c].send_succeeded

\* C3: when the submission of a frame fails, the client is sent QUEUE_FULL /
\* SERVER_DROPPED_FRAME (over a connection that is still open) and the attempt
\* leaves no decrement: from the frame to its reply the counter only grows,
\* and only by the refunds that arrive meanwhile.
C3_FailedSubmissionNoDecrement ==
    [][\A c \in Conn :
        /\ (FailedAttempt(c) \/ FailedAttempt(c)') =>
            LET f == IF FailedAttempt(c) THEN to_engine[c].filter_passed
                     ELSE to_engine'[c].filter_passed
            IN  /\ f \in DOMAIN tokens_for_filter'[c]
                /\ tokens_for_filter'[c][f] - tokens_for_filter[c][f]
                       = refunds'[c] - refunds[c]
                /\ decrements'[c] = decrements[c]
                /\ (FailedAttempt(c) /\ ~FailedAttempt(c)' /\ ws_open[c]) =>
                       sent'[c] = Append(sent[c],
                           StatusMessage(to_engine[c].frame_id, "SERVER_DROPPED_FRAME"))
        /\ (/\ variant = "simple"
            /\ received'[c] # received[c]
            /\ HasTokens(c)
            /\ EngineInClients(received'[c][Len(received'[c])].name)
            /\ Len(input_queue) >= INPUT_QUEUE_MAXSIZE) =>
                /\ tokens'[c] = tokens[c]
                /\ sent'[c] = Append(sent[c],
                       ErrorMessage(nframes', tokens[c], "QUEUE_FULL"))
      ]_vars

\* A client that had a frame accepted was later told SERVER_DROPPED_FRAME.
C3_Witness ==
    \E c \in Conn :
        /\ decrements[c] > 0
        /\ \E i \in 1..Len(sent[c]) :
               /\ sent[c][i].type = "error"
               /\ sent[c][i].status = "SERVER_DROPPED_FRAME"

\* the frame a step received on connection c
FrameOf(c) ==
    received'[c][Len(received'[c])]

\* C4: a result addressed to A is queued for, sent to and refunded to A's
\* client only: the dispatch of a result leaves the counters, the result
\* queue and the messages of every other client as they were.
C4_ResultTouchesOnlyItsClient ==
    [][/\ \A e \in engine : engine' = engine \ {e} =>
            \A c \in Conn :
                \/ /\ e.host_port \in DOMAIN _clients
                   /\ c = _clients[e.host_port]
                   /\ remote_address[c] = e.host_port
                \/ /\ tokens_for_filter'[c] = tokens_for_filter[c]
                   /\ refunds'[c] = refunds[c]
                   /\ sent'[c] = sent[c]
       /\ nresults' # nresults =>
            /\ tokens' = tokens
            /\ sent' = sent
            /\ \A c \in Conn : result_queue'[c] # result_queue[c] =>
                   /\ Len(result_queue'[c]) = Len(result_queue[c]) + 1
                   /\ result_queue'[c][Len(result_queue'[c])].address
                          = remote_address[c]
       /\ \A c \in Conn : Len(result_queue'[c]) < Len(result_queue[c]) =>
            /\ Head(result_queue[c]).address = remote_address[c]
            /\ \A b \in Conn \ {c} :
                   /\ tokens'[b] = tokens[b]
                   /\ refunds'[b] = refunds[b]
                   /\ result_queue'[b] = result_queue[b]
                   /\ sent'[b] = sent[b]
      ]_vars

\* Two clients are registered with a frame accepted from each; one has been
\* sent a result and refunded, the other has not.
C4_Witness ==
    \E a, b \in DOMAIN _clients :
        /\ a # b
        /\ decrements[_clients[a]] > 0
        /\ decrements[_clients[b]] > 0
        /\ refunds[_clients[a]] = 1
        /\ refunds[_clients[b]] = 0
        /\ sent[_clients[a]][Len(sent[_clients[a]])].type = "result"

\* C5: the dispatch of a result whose address is not in the registry ends
\* with one logged warning and no exception, changes no client record, and
\* leaves the dispatch duty running.
C5_UnknownIdentityDropped ==
    [][/\ (nresults' # nresults /\ result_queue' = result_queue) =>
            /\ dispatch_outcome' = "warning"
            /\ clients' = clients
            /\ tokens' = tokens
            /\ sent' = sent
       /\ \A e \in engine :
            (engine' = engine \ {e} /\ e.host_port \notin DOMAIN _clients) =>
                /\ dispatch_outcome' = "warning"
                /\ _producer_exc' = "none"
                /\ _clients' = _clients
                /\ tokens_for_filter' = tokens_for_filter
                /\ sent' = sent
      ]_vars

\* C6: a connection failure of one client never ends the server-wide
\* dispatch duty.
C6_DispatchSurvivesClientFailure ==
    _producer_exc # "ConnectionClosed"

\* the registry of the server that runs
Registry ==
    IF variant = "simple" THEN clients ELSE _clients

\* C7: an address maps to a connection in the registry if and only if that
\* connection's handler is running.
C7_RegistryIffHandlerActive ==
    \A c \in Conn :
        handler_pc[c] \in {"wait", "consumer"}
            <=> /\ remote_address[c] \in DOMAIN Registry
                /\ Registry[remote_address[c]] = c

\* C8: a frame tagged with a name outside the registration set is answered
\* with the engine-not-available status, is not submitted, changes no
\* counter and leaves the connection and its consumer as they were, whatever
\* the client's counters hold; and the test is the one against the
\* registration set: a frame whose name is in the set is not answered so.
C8_UnregisteredNameRejected ==
    [][\A c \in Conn : received'[c] # received[c] =>
        /\ (variant = "filter" /\ ~FrameOf(c).registered) =>
            /\ sent'[c] = Append(sent[c], StatusMessage(FrameOf(c).frame_id,
                                     "NO_ENGINE_FOR_FILTER_PASSED"))
            /\ engine' = engine
            /\ accepted' = accepted
            /\ tokens_for_filter' = tokens_for_filter
            /\ ws_open'[c]
            /\ consumer_pc'[c] = "recv"
            /\ handler_pc'[c] = "consumer"
        /\ (variant = "simple" /\ ~FrameOf(c).registered) =>
            /\ sent'[c] = Append(sent[c], ErrorMessage(FrameOf(c).frame_id,
                                     tokens[c], "REQUESTED_ENGINE_NOT_AVAILABLE"))
            /\ input_queue' = input_queue
            /\ accepted' = accepted
            /\ tokens' = tokens
            /\ ws_open'[c]
            /\ consumer_pc'[c] = "recv"
            /\ handler_pc'[c] = "wait"
        /\ FrameOf(c).registered =>
            \/ sent'[c] = sent[c]
            \/ sent'[c][Len(sent'[c])].status
                   \notin {"NO_ENGINE_FOR_FILTER_PASSED",
                           "REQUESTED_ENGINE_NOT_AVAILABLE"}
      ]_vars

\* the error replies among the messages sent to c
ErrorReplies(c) ==
    {i \in 1..Len(sent[c]) : sent[c][i].type = "error"}

\* Every frame of c named a registered category, the transport refused none,
\* no result has come back to c, and c's consumer is not in the middle of a
\* frame: only the counter decides what is forwarded.
OnlyTokensDecide(c) ==
    /\ refunds[c] = 0
    /\ \A i \in 1..Len(received[c]) : received[c][i].registered
    /\ \A i \in ErrorReplies(c) :
           sent[c][i].status \notin {"QUEUE_FULL", "SERVER_DROPPED_FRAME"}
    /\ \/ consumer_pc[c] = "recv"
       \/ handler_exc[c] = "KeyError(filter_passed)"

Allotment ==
    IF variant = "simple" THEN NUM_TOKENS ELSE num_tokens_per_filter

Min(x, y) ==
    IF x < y THEN x ELSE y

\* C9: a frame that arrives while its counter is 0 is answered NO_TOKENS, is
\* not submitted and leaves the counter 0 and the consumer receiving; and as
\* long as no result comes back, exactly the first N frames of a client are
\* accepted and each later one is rejected with NO_TOKENS.
C9_NoTokensNoSubmission ==
    [][\A c \in Conn :
        /\ received'[c] # received[c] =>
            /\ (/\ variant = "filter"
                /\ FrameOf(c).registered
                /\ FrameOf(c).name \in DOMAIN tokens_for_filter[c]
                /\ tokens_for_filter[c][FrameOf(c).name] = 0) =>
                    /\ sent'[c] = Append(sent[c],
                           StatusMessage(FrameOf(c).frame_id, "NO_TOKENS"))
                    /\ engine' = engine
                    /\ accepted' = accepted
                    /\ to_engine' = to_engine
                    /\ tokens_for_filter' = tokens_for_filter
                    /\ consumer_pc'[c] = "recv"
            /\ (/\ variant = "simple"
                /\ FrameOf(c).registered
                /\ tokens[c] = 0) =>
                    /\ sent'[c] = Append(sent[c],
                           ErrorMessage(FrameOf(c).frame_id, 0, "NO_TOKENS"))
                    /\ input_queue' = input_queue
                    /\ accepted' = accepted
                    /\ tokens' = tokens
                    /\ consumer_pc'[c] = "recv"
        /\ OnlyTokensDecide(c)' =>
            /\ accepted'[c] = Min(Len(received'[c]), Allotment)
            /\ \A i \in ErrorReplies(c)' : sent'[c][i].status = "NO_TOKENS"
            /\ Cardinality(ErrorReplies(c)') = Len(received'[c]) - accepted'[c]
      ]_vars

\* C10: the counters of every registered client with a running handler are
\* those of the registration set.
C10_LedgerMatchesRegistration ==
    \A a \in DOMAIN _clients :
        handler_pc[_clients[a]] = "consumer" =>
            DOMAIN tokens_for_filter[_clients[a]] = _filters_consumed

\* C11: the welcome message of a connection lists the registration set and
\* the allotment as they are when the client record is created, which are
\* the keys and the initial values of the record's ledger; it is the first
\* message sent on the connection, a running handler has sent it, and no
\* later step sends another.
C11_WelcomeOnceAtConnect ==
    [][/\ \A c \in Conn :
            (variant = "filter" /\ nconns' = c /\ nconns # c) =>
                /\ tokens_for_filter'[c] =
                       [f \in _filters_consumed |-> num_tokens_per_filter]
                /\ sent'[c] # <<>> =>
                       sent'[c] = <<[type |-> "welcome",
                                     filters_consumed |-> _filters_consumed,
                                     num_tokens_per_filter |-> num_tokens_per_filter]>>
       /\ \A c \in Conn :
            /\ handler_pc'[c] = "consumer" =>
                   /\ sent'[c] # <<>>
                   /\ sent'[c][1].type = "welcome"
            /\ \A i \in 1..Len(sent'[c]) : sent'[c][i].type = "welcome" => i = 1
            /\ (sent[c] # <<>> /\ sent'[c] # <<>>) => sent'[c][1] = sent[c][1]
      ]_vars

\* A client was welcomed with f1, has been sent more since, and f1 is no
\* longer registered.
C11_Witness ==
    \E c \in Conn :
        /\ Len(sent[c]) >= 2
        /\ sent[c][1].type = "welcome"
        /\ sent[c][1].filters_consumed = {"f1"}
        /\ _filters_consumed = {}

\* C12: the handler of a connection that ends removes the connection's own
\* entry from the registry, once: it finds the entry, raises no KeyError,
\* leaves no entry for its address behind and leaves every other entry alone,
\* and its duties have stopped.
C12_TeardownRemovesOwnEntryOnce ==
    [][\A c \in Conn :
        (handler_pc'[c] = "done" /\ handler_pc[c] # "done") =>
            /\ handler_exc'[c] # "KeyError(address)"
            /\ remote_address'[c] \notin DOMAIN Registry'
            /\ handler_pc[c] # "idle" =>
                   /\ remote_address[c] \in DOMAIN Registry
                   /\ Registry[remote_address[c]] = c
                   /\ Registry' = Delete(Registry, remote_address[c])
            /\ consumer_pc'[c] \in {"idle", "done", "cancelled"}
            /\ variant = "simple" => producer_pc'[c] \in {"done", "cancelled"}
      ]_vars

\* C13: a connection whose address is already a key of the registry is
\* rejected: its handler does not run, and the entry under the address, the
\* counters and the result queue of the session that holds it stay as they
\* were.
C13_DuplicateIdentityRejected ==
    [][\A c \in Conn :
        (nconns' = c /\ nconns # c /\ remote_address'[c] \in DOMAIN Registry) =>
            LET old == Registry[remote_address'[c]] IN
                /\ Registry' = Registry
                /\ handler_pc'[c] \notin {"wait", "consumer"}
                /\ tokens'[old] = tokens[old]
                /\ tokens_for_filter'[old] = tokens_for_filter[old]
                /\ result_queue'[old] = result_queue[old]
      ]_vars

\* the frame_ids of a sequence of frames or envelopes, in order
FrameIds(seq) ==
    [i \in 1..Len(seq) |-> seq[i].frame_id]

\* the envelopes of connection c among those the transport took, in order
SubmittedOf(c) ==
    SelectSeq(submitted, LAMBDA e : e.origin = c)

\* a frame of connection c has been forwarded or answered with an error
Handled(c, frame_id) ==
    \/ \E i \in 1..Len(submitted) :
           submitted[i].origin = c /\ submitted[i].frame_id = frame_id
    \/ \E i \in 1..Len(sent[c]) :
           sent[c][i].type = "error" /\ sent[c][i].frame_id = frame_id

\* C14: the envelopes submitted for a client are frames received on its
\* connection, each submitted once and in the order received, under the
\* client's address and with the frame's name; and a frame is received only
\* when every earlier frame of the connection has been forwarded or answered
\* with an error.
C14_FramesInReceiptOrder ==
    [][\A c \in Conn :
        /\ \A i \in 1..Len(SubmittedOf(c))' :
            /\ \E k \in 1..Len(received'[c]) :
                   /\ received'[c][k].frame_id = SubmittedOf(c)'[i].frame_id
                   /\ received'[c][k].name =
                          (IF variant = "simple" THEN SubmittedOf(c)'[i].engine_name
                           ELSE SubmittedOf(c)'[i].filter_passed)
            /\ SubmittedOf(c)'[i].host_port = remote_address'[c]
            /\ \A j \in 1..Len(SubmittedOf(c))' :
                   i < j => SubmittedOf(c)'[i].frame_id < SubmittedOf(c)'[j].frame_id
        /\ \A k \in 1..Len(received'[c]) : \A l \in 1..Len(received'[c]) :
               k < l => received'[c][k].frame_id < received'[c][l].frame_id
        /\ received'[c] # received[c] =>
            /\ received'[c] = Append(received[c], FrameOf(c))
            /\ \/ SubmittedOf(c)' = SubmittedOf(c)
               \/ /\ Len(SubmittedOf(c)') = Len(SubmittedOf(c)) + 1
                  /\ SubSeq(SubmittedOf(c)', 1, Len(SubmittedOf(c))) = SubmittedOf(c)
                  /\ SubmittedOf(c)'[Len(SubmittedOf(c)')].frame_id
                         = FrameOf(c).frame_id
            /\ \A k \in 1..Len(received[c]) : Handled(c, received[c][k].frame_id)
        /\ received'[c] = received[c] => SubmittedOf(c)' = SubmittedOf(c)
      ]_vars

\* A client has had three frames received: the first and the third were
\* forwarded, the second was answered with an error.
C14_Witness ==
    \E c \in Conn :
        /\ Len(received[c]) = 3
        /\ FrameIds(SubmittedOf(c)) = <<received[c][1].frame_id, received[c][3].frame_id>>
        /\ \E i \in 1..Len(sent[c]) :
               sent[c][i].type = "error" /\ sent[c][i].frame_id = received[c][2].frame_id

\* the ids of the results among the messages sent to c, in order
SentResultIds(c) ==
    LET results == SelectSeq(sent[c], LAMBDA m : m.type = "result")
    IN  [i \in 1..Len(results) |-> results[i].content.id]

\* the ids of the results waiting in c's result queue, in order
QueuedResultIds(c) ==
    [i \in 1..Len(result_queue[c]) |-> result_queue[c][i].id]

Increasing(seq) ==
    \A i \in 1..Len(seq) : \A j \in 1..Len(seq) : i < j => seq[i] < seq[j]

\* a step wrote message to c, after all that was written to c before
WroteLast(c, message) ==
    sent'[c] = Append(sent[c], message)

\* a step wrote no result to c
WroteNoResult(c) ==
    \/ sent'[c] = sent[c]
    \/ \E message \in {sent'[c][Len(sent'[c])]} :
           WroteLast(c, message) /\ message.type # "result"

\* C15: results reach a client in the order of their dispatch.  The
\* _producer writes the result it dispatches after everything written to the
\* client before, or ends without writing any later result; submit_result
\* numbers the results in the order of its calls and queues each behind the
\* earlier ones, and producer_handler sends the head of the queue, or ends
\* without sending any later result.
C15_ResultsInDispatchOrder ==
    [][/\ \A e \in engine :
            (engine' = engine \ {e} /\ e.host_port \in DOMAIN _clients) =>
                \/ /\ WroteLast(_clients[e.host_port], ResultWrapper(e))
                   /\ \A c \in Conn \ {_clients[e.host_port]} : sent'[c] = sent[c]
                \/ /\ _producer_exc' # "none"
                   /\ sent' = sent
       /\ (variant = "filter" /\ _producer_exc # "none") =>
            \A c \in Conn : WroteNoResult(c)
       /\ \A c \in Conn : variant = "simple" =>
            /\ Increasing(SentResultIds(c)' \o QueuedResultIds(c)')
            /\ Len(result_queue'[c]) > Len(result_queue[c]) =>
                   result_queue'[c] =
                       Append(result_queue[c], result_queue'[c][Len(result_queue'[c])])
            /\ Len(result_queue'[c]) < Len(result_queue[c]) =>
                   /\ result_queue'[c] = Tail(result_queue[c])
                   /\ \/ WroteLast(c, ResultMessage(Head(result_queue[c]), tokens'[c]))
                      \/ (producer_pc'[c] = "done" /\ sent'[c] = sent[c])
            /\ Len(result_queue'[c]) >= Len(result_queue[c]) => WroteNoResult(c)
            /\ producer_pc[c] \in {"done", "cancelled"} => WroteNoResult(c)
      ]_vars

\* A client was sent the result of its second frame before the result of its
\* first: the order is that of the dispatch, not that of the frames.
C15_Witness ==
    \E c \in Conn : \E i, j \in 1..Len(sent[c]) :
        /\ i < j
        /\ sent[c][i].type = "result"
        /\ sent[c][j].type = "result"
        /\ variant = "filter"
        /\ sent[c][i].frame_id > sent[c][j].frame_id

\* the counter of category g in c's ledger changed by d in a step
CounterChanged(c, g, d) ==
    /\ g \in DOMAIN tokens_for_filter[c]
    /\ g \in DOMAIN tokens_for_filter'[c]
    /\ tokens_for_filter'[c][g] = tokens_for_filter[c][g] + d

\* C16: the counters of a client are independent.  A step changes at most
\* one counter of a client: the one of the frame whose submission the
\* consumer completes (-1) or the one of the result dispatched (+1).  A frame
\* of a category whose counter is 0 is answered NO_TOKENS whatever the other
\* counters hold, and a frame of a category whose counter is positive is
\* handed to the engine transport although another counter is 0.
C16_CategoriesIndependent ==
    [][\A c \in Conn :
        /\ \/ DOMAIN tokens_for_filter'[c] = DOMAIN tokens_for_filter[c]
           \/ (nconns' = c /\ nconns # c)
        /\ \A g \in DOMAIN tokens_for_filter[c] \cap DOMAIN tokens_for_filter'[c] :
            \/ CounterChanged(c, g, 0)
            \/ /\ CounterChanged(c, g, -1)
               /\ consumer_pc[c] = "send_to_engine"
               /\ to_engine[c].filter_passed = g
               /\ \A h \in DOMAIN tokens_for_filter[c] \ {g} : CounterChanged(c, h, 0)
            \/ /\ CounterChanged(c, g, 1)
               /\ \E e \in engine : /\ engine' = engine \ {e}
                                    /\ e.filter_passed = g
                                    /\ e.host_port = remote_address[c]
               /\ \A h \in DOMAIN tokens_for_filter[c] \ {g} : CounterChanged(c, h, 0)
            \/ (nconns' = c /\ nconns # c)
        /\ (/\ received'[c] # received[c]
            /\ FrameOf(c).registered
            /\ FrameOf(c).name \in DOMAIN tokens_for_filter[c]) =>
                IF tokens_for_filter[c][FrameOf(c).name] = 0
                THEN /\ sent'[c] = Append(sent[c],
                            StatusMessage(FrameOf(c).frame_id, "NO_TOKENS"))
                     /\ submitted' = submitted
                     /\ consumer_pc'[c] = "recv"
                ELSE /\ sent'[c] = sent[c]
                     /\ consumer_pc'[c] = "send_to_engine"
                     /\ to_engine'[c].frame_id = FrameOf(c).frame_id
                     /\ to_engine'[c].filter_passed = FrameOf(c).name
                     /\ to_engine'[c].send_succeeded =>
                            submitted' = Append(submitted,
                                ToEngine(c, FrameOf(c).frame_id, FrameOf(c).name))
      ]_vars

\* A client spent both tokens of f1 and then had a frame of f2 forwarded:
\* its counter for f1 is 0 and its counter for f2 is 1.
C16_Witness ==
    \E c \in Conn :
        /\ DOMAIN tokens_for_filter[c] = {"f1", "f2"}
        /\ tokens_for_filter[c]["f1"] = 0
        /\ tokens_for_filter[c]["f2"] = 1
        /\ Len(SubmittedOf(c)) = 3
        /\ SubmittedOf(c)[3].filter_passed = "f2"
        /\ consumer_pc[c] = "recv"

\* the connection of a running handler is closed, or one of its two tasks
\* is done
TeardownDue(c) ==
    /\ handler_pc[c] = "wait"
    /\ \/ ~ws_open[c]
       \/ consumer_pc[c] = "done"
       \/ producer_pc[c] = "done"

\* the handler has ended, none of its tasks runs and its address is not a
\* key of the registry
TornDown(c) ==
    /\ handler_pc[c] = "done"
    /\ consumer_pc[c] \in {"done", "cancelled"}
    /\ producer_pc[c] \in {"done", "cancelled"}
    /\ remote_address[c] \notin DOMAIN clients

\* C17: in the simple variant, once a client's connection is closed or one
\* of its two tasks is done, eventually its handler has ended, the other task
\* is cancelled and its address is not a key of the registry, whichever task
\* finishes first.
C17_CloseLeadsToTeardown ==
    \A c \in Conn : TeardownDue(c) ~> TornDown(c)

\* The producer_handler of a client finished first, on a failed send: the
\* consumer_handler was cancelled and the entry is gone.
C17_Witness ==
    \E c \in Conn :
        /\ variant = "simple"
        /\ TornDown(c)
        /\ producer_pc[c] = "done"
        /\ consumer_pc[c] = "cancelled"

\* the frames of category f that connection c had forwarded and that have not
\* been answered yet
Outstanding(c, f) ==
    Cardinality({e \in engine : e.origin = c /\ e.filter_passed = f})

\* C18: no counter exceeds the allotment, and the counter of a session plus
\* its forwarded frames that are not answered yet is the allotment (for the
\* per-category server: whenever the consumer is not between the submission
\* of a frame and its decrement).
C18_CounterPlusOutstanding ==
    \A c \in Conn :
        /\ handler_pc[c] = "wait" => tokens[c] <= NUM_TOKENS
        /\ \A f \in DOMAIN tokens_for_filter[c] :
            /\ tokens_for_filter[c][f] <= num_tokens_per_filter
            /\ consumer_pc[c] # "send_to_engine" =>
                   tokens_for_filter[c][f] + Outstanding(c, f) = num_tokens_per_filter

\* C19: every result sent to a session answers a frame that this session had
\* forwarded, and the dispatch of a result refunds and writes to no session
\* but the one that forwarded its frame, also when a later session holds the
\* same address.
C19_ResultsAnswerOwnFrames ==
    [][/\ \A c \in Conn : \A i \in 1..Len(sent'[c]) :
            (variant = "filter" /\ sent'[c][i].type = "result") =>
                \E k \in 1..Len(SubmittedOf(c)') :
                    SubmittedOf(c)'[k].frame_id = sent'[c][i].frame_id
       /\ \A e \in engine : engine' = engine \ {e} =>
            \A c \in Conn \ {e.origin} :
                /\ refunds'[c] = refunds[c]
                /\ tokens_for_filter'[c] = tokens_for_filter[c]
                /\ sent'[c] = sent[c]
      ]_vars

\* C20: no counter access fails for a category that was removed with frames
\* in flight: the _producer does not end with KeyError at the refund of a
\* result, and a _consumer that resumes from the submission of a frame does
\* not end with KeyError at the decrement.
C20_RemovedCategoryNoKeyError ==
    [][/\ _producer_exc' # "KeyError(filter_passed)"
       /\ \A c \in Conn :
            (consumer_pc[c] = "send_to_engine" /\ consumer_pc'[c] # "send_to_engine") =>
                handler_exc'[c] # "KeyError(filter_passed)"
      ]_vars

====
